---- MODULE Spec2Model ----
(***************************************************************************)
(* Model of the mock SaaS API server (kmdeeptrace/API-Simulator).          *)
(*                                                                         *)
(*  - data/index.js   generateAllData builds users, repos, commits, files  *)
(*                    once at module load; query helpers read them.        *)
(*  - utils/errors.js the request counter and the rate-limit check.        *)
(*  - hard-tier routes: GET /api/hard/users/:user_id/repos.                 *)
(*                                                                         *)
(*  - medium-tier routes and hard-tier GET /api/hard/repos/:id/commits.    *)
(*                                                                         *)
(* faker is a seeded pseudo-random stream: a 16-bit linear congruential    *)
(* generator stands for it, one step per faker call.  Of the fields faker  *)
(* fills in, the records keep the commit's sha (four hex digits, the bits  *)
(* of one draw) and timestamp; the other calls only advance the stream.    *)
(* Path and query parameters are integer-valued decimal texts, on which    *)
(* parseInt yields the integer.                                            *)
(***************************************************************************)
EXTENDS Integers, Sequences, FiniteSets, TLC

(* ---- program constants ------------------------------------------------ *)
NumUsers == 20
NumRepos == 50
NumFiles == 30
NumUsersWithRepos == 15
LastOwnedRepo == 45
LastDeletedOwnerRepo == 47
LastCommitRepo == 40
MaxCommits == 200
DeletedUser == 18
FileRepoSpan == 25
PermissionThreshold == 15
RateLimitPeriod == 5
RetryAfter == 2
Seed == 42
FakerModulus == 65536
FakerMult == 25173
FakerInc == 13849
UserDraws == 6
RepoDraws == 7
CommitDraws == 7
FileDraws == 5
ContentSeedFactor == 1000
ContentValues == 50
SectionEvery == 10
EmptyPercent == 3
MalformedPercent == 5
ServerErrorPercent == 10

(* ---- bounds of the model ---------------------------------------------- *)
NumClients == 2
MaxRequests == 10
MaxCalls == 15

MaxFollow == 3
MaxLen == 5
MaxPage == 4
MaxPerPage == 3
MaxLookups == 1
MaxDownloads == 3
MaxRestarts == 1
MaxHops == 7
MaxCounted == 6

Clients == 1..NumClients
RepoIdInputs == {0, 1, 5, 7, 11, 13, 14, 37, 38, 50, 51}
PageInputs == {0 - 1, 0, 1, 2}
PerPageInputs == {0, 5, 10}
UserIdInputs == {0, 1, 15, 16, 18, 21}

VARIABLES
  pc,              \* position of the process: the build loops, then "serving"
  i,               \* loop variable of the users / repos / files loops
  users, repos, commits, files,
  usersWithRepos,
  commitId, repoId, j,   \* the commit loops of generateAllData
  requestCounter,  \* utils/errors.js: let requestCounter
  client,          \* per client: the request in flight, if any
  last,            \* the response most recently sent, with its request
  served,          \* number of user-repos requests handled so far
  observed,        \* the reqCount values the handled requests have seen
  limited,         \* number of 429 responses sent so far
  nIncs,           \* direct calls of getRequestCount since init / reset
  nChecks,         \* direct calls of isRateLimited since init / reset
  trueAt,          \* which of those isRateLimited calls returned true
  lastCall,        \* the previous direct call: "none", "inc" or "check"
  paired,          \* every direct check so far directly followed one inc
  fakerState,      \* the state of the global faker stream
  contentSeen,     \* the downloads answered so far: file id and content
  pag,             \* the latest direct call of paginate and its result
  firstBuild,      \* the collections of an earlier run of the process, if any
  limitedLog       \* per user-repos request handled, in order: was it a 429

dataVars == <<i, users, repos, commits, files, usersWithRepos, commitId, repoId, j>>
serveVars == <<client, last, served, observed, limited>>
unitVars == <<nIncs, nChecks, trueAt, lastCall, paired>>
auxVars == <<contentSeen, pag, firstBuild, limitedLog>>
vars == <<pc, dataVars, requestCounter, serveVars, unitVars, fakerState, auxVars>>

(* ---- faker: the seeded stream ----------------------------------------- *)
\* faker.seed(n)
fakerSeed(n) == n % FakerModulus

fakerNext(s) == (FakerMult * s + FakerInc) % FakerModulus

\* the state after n faker calls; it is also the value of the n-th call
RECURSIVE fakerSkip(_, _)
fakerSkip(s, n) == IF n = 0 THEN s ELSE fakerSkip(fakerNext(s), n - 1)

\* faker.git.commitSha(): hex digits, eight of them
hex4(v) == <<v \div 4096, (v \div 256) % 16, (v \div 16) % 16, v % 16>>

shaOf(v) == hex4(v) \o hex4(fakerNext(v))

(* ---- utils/generate.js ------------------------------------------------ *)
generateUser(id, deleted) == [id |-> id, deleted |-> deleted]

generateRepo(id, ownerId) == [id |-> id, owner_id |-> ownerId]

generateCommitSwapped(id, rId, authorId, s) ==
  [id |-> id, repo_id |-> id, author_id |-> authorId,
   timestamp |-> fakerSkip(s, 4) % 365, sha |-> shaOf(fakerSkip(s, 5))]

\* the faker calls in order: type, scope, subject, timestamp, sha,
\* additions, deletions
generateCommit(id, rId, authorId, s) ==
  [id |-> id, repo_id |-> rId, author_id |-> authorId,
   timestamp |-> fakerSkip(s, 4) % 365, sha |-> shaOf(fakerSkip(s, 5))]

generateFile(id, rId) == [id |-> id, repo_id |-> rId]

(* ---- data/index.js: the rules of generateAllData ---------------------- *)
\* users.slice(0, 15).map(u => u.id)
SliceIds(us, n) == [k \in 1..(IF Len(us) < n THEN Len(us) ELSE n) |-> us[k].id]

\* the owners as the comment of generateAllData lists them: 18, 21, 22, 23, 24
ownerIdForComment(r, uwr) ==
  IF r <= LastOwnedRepo THEN uwr[(r % Len(uwr)) + 1]
  ELSE IF r <= LastOwnedRepo + 1 THEN DeletedUser
  ELSE NumUsers + (r - (LastOwnedRepo + 1))

\* usersWithRepos[i % usersWithRepos.length] is index (i % length) + 1 here
ownerIdFor(r, uwr) ==
  IF r <= LastOwnedRepo THEN uwr[(r % Len(uwr)) + 1]
  ELSE IF r <= LastDeletedOwnerRepo THEN DeletedUser
  ELSE NumUsers + (r - LastDeletedOwnerRepo)

numCommitsMod5(r) == 3 + (r % 5)

numCommits(r) == 3 + (r % 6)

commitLoopCondNoCap(jj, r, cid) == jj < numCommits(r)

commitLoopCond(jj, r, cid) == jj < numCommits(r) /\ cid <= MaxCommits

authorIdForMod18(cid) == IF cid % 20 = 0 THEN DeletedUser ELSE (cid % 18) + 1

authorIdFor(cid) == IF cid % 20 = 0 THEN DeletedUser ELSE (cid % 17) + 1

fileRepoId(f) == ((f - 1) % FileRepoSpan) + 1

Init ==
  /\ pc = "users"
  /\ i = 1
  /\ users = <<>> /\ repos = <<>> /\ commits = <<>> /\ files = <<>>
  /\ usersWithRepos = <<>>
  /\ commitId = 1 /\ repoId = 1 /\ j = 0
  /\ requestCounter = 0
  /\ client = [c \in Clients |-> [st |-> "idle"]]
  /\ last = [st |-> "none"]
  /\ served = 0 /\ observed = {} /\ limited = 0
  /\ nIncs = 0 /\ nChecks = 0 /\ trueAt = {} /\ lastCall = "none" /\ paired = TRUE
  /\ fakerState = fakerSeed(Seed)
  /\ contentSeen = <<>>
  /\ pag = [st |-> "none"]
  /\ firstBuild = [st |-> "none"]
  /\ limitedLog = <<>>

restUnchanged == UNCHANGED <<requestCounter, serveVars, unitVars, auxVars>>

\* for (let i = 1; i <= 20; i++) users.push(generateUser(i, {deleted: i === 18}))
BuildUser ==
  /\ pc = "users" /\ i <= NumUsers
  /\ users' = Append(users, generateUser(i, i = DeletedUser))
  /\ fakerState' = fakerSkip(fakerState, UserDraws)
  /\ i' = i + 1
  /\ UNCHANGED <<pc, repos, commits, files, usersWithRepos, commitId, repoId, j>>
  /\ restUnchanged

UsersDone ==
  /\ pc = "users" /\ i > NumUsers
  /\ usersWithRepos' = SliceIds(users, NumUsersWithRepos)
  /\ pc' = "repos" /\ i' = 1
  /\ UNCHANGED fakerState
  /\ UNCHANGED <<users, repos, commits, files, commitId, repoId, j>>
  /\ restUnchanged

BuildRepo ==
  /\ pc = "repos" /\ i <= NumRepos
  /\ repos' = Append(repos, generateRepo(i, ownerIdFor(i, usersWithRepos)))
  /\ fakerState' = fakerSkip(fakerState, RepoDraws)
  /\ i' = i + 1
  /\ UNCHANGED <<pc, users, commits, files, usersWithRepos, commitId, repoId, j>>
  /\ restUnchanged

ReposDone ==
  /\ pc = "repos" /\ i > NumRepos
  /\ pc' = "commits" /\ commitId' = 1 /\ repoId' = 1 /\ j' = 0
  /\ UNCHANGED fakerState
  /\ UNCHANGED <<i, users, repos, commits, files, usersWithRepos>>
  /\ restUnchanged

\* body of the inner loop
BuildCommit ==
  /\ pc = "commits" /\ repoId <= LastCommitRepo
  /\ commitLoopCond(j, repoId, commitId)
  /\ commits' = Append(commits,
                generateCommit(commitId, repoId, authorIdFor(commitId), fakerState))
  /\ fakerState' = fakerSkip(fakerState, CommitDraws)
  /\ commitId' = commitId + 1
  /\ j' = j + 1
  /\ UNCHANGED <<pc, i, users, repos, files, usersWithRepos, repoId>>
  /\ restUnchanged

\* the inner loop ends: next repoId
NextCommitRepo ==
  /\ pc = "commits" /\ repoId <= LastCommitRepo
  /\ ~commitLoopCond(j, repoId, commitId)
  /\ repoId' = repoId + 1 /\ j' = 0
  /\ UNCHANGED fakerState
  /\ UNCHANGED <<pc, i, users, repos, commits, files, usersWithRepos, commitId>>
  /\ restUnchanged

CommitsDone ==
  /\ pc = "commits" /\ repoId > LastCommitRepo
  /\ pc' = "files" /\ i' = 1
  /\ UNCHANGED fakerState
  /\ UNCHANGED <<users, repos, commits, files, usersWithRepos, commitId, repoId, j>>
  /\ restUnchanged

BuildFile ==
  /\ pc = "files" /\ i <= NumFiles
  /\ files' = Append(files, generateFile(i, fileRepoId(i)))
  /\ fakerState' = fakerSkip(fakerState, FileDraws)
  /\ i' = i + 1
  /\ UNCHANGED <<pc, users, repos, commits, usersWithRepos, commitId, repoId, j>>
  /\ restUnchanged

\* generateAllData returns; the routes are registered and the server listens
FilesDone ==
  /\ pc = "files" /\ i > NumFiles
  /\ pc' = "serving"
  /\ UNCHANGED fakerState
  /\ UNCHANGED dataVars
  /\ restUnchanged

Build ==
  \/ BuildUser \/ UsersDone \/ BuildRepo \/ ReposDone
  \/ BuildCommit \/ NextCommitRepo \/ CommitsDone
  \/ BuildFile \/ FilesDone

(* ---- data/index.js: query helpers -------------------------------------- *)
Undefined == [undefined |-> TRUE]

\* users.find(u => u.id === parseInt(id)): the first match, or undefined
getUserById(id) ==
  IF \E k \in 1..Len(users) : users[k].id = id
  THEN users[CHOOSE k \in 1..Len(users) :
               /\ users[k].id = id
               /\ \A m \in 1..(k - 1) : users[m].id /= id]
  ELSE Undefined

getReposByOwnerById(ownerId) == SelectSeq(repos, LAMBDA r : r.id = ownerId)

\* repos.find(r => r.id === parseInt(id))
getRepoById(id) ==
  IF \E k \in 1..Len(repos) : repos[k].id = id
  THEN repos[CHOOSE k \in 1..Len(repos) :
               /\ repos[k].id = id
               /\ \A m \in 1..(k - 1) : repos[m].id /= id]
  ELSE Undefined

\* files.find(f => f.id === parseInt(id))
getFileById(id) ==
  LET hits == {k \in 1..Len(files) : files[k].id = id}
  IN IF hits = {} THEN Undefined
     ELSE files[CHOOSE k \in hits : \A m \in hits : k <= m]

\* files.filter(f => f.repo_id === parseInt(repoId))
getFilesByRepo(rId) == SelectSeq(files, LAMBDA f : f.repo_id = rId)

\* getStats(), without the languages, which the model's repos do not carry
getStats ==
  LET activeUsers == Len(SelectSeq(users, LAMBDA u : ~u.deleted))
      reposWithCommits ==
        Cardinality({commits[k].repo_id : k \in 1..Len(commits)})
  IN [total_users |-> Len(users),
      active_users |-> activeUsers,
      deleted_users |-> Len(users) - activeUsers,
      total_repos |-> Len(repos),
      repos_with_commits |-> reposWithCommits,
      repos_without_commits |-> Len(repos) - reposWithCommits,
      total_commits |-> Len(commits),
      total_files |-> Len(files)]

\* repos.filter(r => r.owner_id === parseInt(ownerId))
getReposByOwner(ownerId) == SelectSeq(repos, LAMBDA r : r.owner_id = ownerId)

\* commits.filter(c => c.repo_id === parseInt(repoId))
getCommitsByRepo(rId) == SelectSeq(commits, LAMBDA c : c.repo_id = rId)

\* JavaScript null next to numbers: null is the empty tuple, n is <<n>>
Null == <<>>

JsNum(n) == <<n>>

Min(a, b) == IF a < b THEN a ELSE b

Max(a, b) == IF a > b THEN a ELSE b

\* Array.prototype.slice(start, end): a negative index counts from the end
jsSlice(seq, start, end) ==
  LET len == Len(seq)
      k == IF start < 0 THEN Max(len + start, 0) ELSE Min(start, len)
      final == IF end < 0 THEN Max(len + end, 0) ELSE Min(end, len)
  IN IF k < final THEN SubSeq(seq, k + 1, final) ELSE <<>>

\* Math.ceil(a / b) for a >= 0 and b >= 1
ceilDiv(a, b) == (a + b - 1) \div b

paginateZeroBased(array, page, perPage) ==
  LET start == page * perPage
      end == start + perPage
  IN [data |-> jsSlice(array, start, end),
      total |-> Len(array),
      page |-> page,
      per_page |-> perPage,
      total_pages |-> ceilDiv(Len(array), perPage)]

\* paginate(array, page, perPage) for perPage >= 1
paginate(array, page, perPage) ==
  LET start == (page - 1) * perPage
      end == start + perPage
  IN [data |-> jsSlice(array, start, end),
      total |-> Len(array),
      page |-> page,
      per_page |-> perPage,
      total_pages |-> ceilDiv(Len(array), perPage)]

(* ---- utils/errors.js --------------------------------------------------- *)
getRequestCountLost(counter) == [counter |-> counter, ret |-> counter + 1]

\* return ++requestCounter: the new value of the global and the value returned
getRequestCount(counter) == [counter |-> counter + 1, ret |-> counter + 1]

resetRequestCounter == 0

isRateLimitedOffByOne(counter) == (counter + 1) % RateLimitPeriod = 0

isRateLimitedTruthy(counter) == counter % RateLimitPeriod /= 0

\* a limit that stays once the fifth request has been reached
isRateLimitedFromFifth(counter) == counter >= RateLimitPeriod

\* return requestCounter % 5 === 0
isRateLimited(counter) == counter % RateLimitPeriod = 0

(* ---- routes/hard.js: GET /api/hard/users/:user_id/repos --------------- *)
JsonHeaders == {}

errorBody(code, error, message) ==
  [statusCode |-> code, error |-> error, message |-> message]

\* the handler with the not-found check ahead of the permission check
hardUserReposNotFoundFirst(userId, counter) ==
  LET user == getUserById(userId) IN
  IF isRateLimited(counter) THEN
    [status |-> 429,
     headers |-> {<<"Retry-After", "2">>, <<"X-RateLimit-Limit", "100">>,
                  <<"X-RateLimit-Remaining", "0">>},
     body |-> [statusCode |-> 429, error |-> "Too Many Requests",
               message |-> <<"Rate limit exceeded. Please retry after the specified time.">>,
               retry_after |-> RetryAfter]]
  ELSE IF user = Undefined THEN
    [status |-> 404, headers |-> JsonHeaders,
     body |-> errorBody(404, "Not Found", <<"User with id ", userId, " not found">>)]
  ELSE IF user.deleted THEN
    [status |-> 404, headers |-> JsonHeaders,
     body |-> errorBody(404, "Not Found", <<"User ", userId, " has been deleted">>)]
  ELSE IF userId > PermissionThreshold THEN
    [status |-> 403, headers |-> JsonHeaders,
     body |-> errorBody(403, "Forbidden",
                <<"You don't have permission to access repos for user ", userId>>)]
  ELSE
    [status |-> 200, headers |-> JsonHeaders,
     body |-> [data |-> getReposByOwner(userId),
               count |-> Len(getReposByOwner(userId))]]

\* the handler with the permission check ahead of the deleted-user check
hardUserReposPermissionFirst(userId, counter) ==
  LET user == getUserById(userId) IN
  IF isRateLimited(counter) THEN
    [status |-> 429,
     headers |-> {<<"Retry-After", "2">>, <<"X-RateLimit-Limit", "100">>,
                  <<"X-RateLimit-Remaining", "0">>},
     body |-> [statusCode |-> 429, error |-> "Too Many Requests",
               message |-> <<"Rate limit exceeded. Please retry after the specified time.">>,
               retry_after |-> RetryAfter]]
  ELSE IF userId > PermissionThreshold THEN
    [status |-> 403, headers |-> JsonHeaders,
     body |-> errorBody(403, "Forbidden",
                <<"You don't have permission to access repos for user ", userId>>)]
  ELSE IF user /= Undefined /\ user.deleted THEN
    [status |-> 404, headers |-> JsonHeaders,
     body |-> errorBody(404, "Not Found", <<"User ", userId, " has been deleted">>)]
  ELSE IF user = Undefined THEN
    [status |-> 404, headers |-> JsonHeaders,
     body |-> errorBody(404, "Not Found", <<"User with id ", userId, " not found">>)]
  ELSE
    [status |-> 200, headers |-> JsonHeaders,
     body |-> [data |-> getReposByOwner(userId),
               count |-> Len(getReposByOwner(userId))]]

\* The response of the handler, given the parsed user id and the value of
\* requestCounter after getRequestCount().  X-RateLimit-Reset is the wall
\* clock plus two seconds and is left out.
hardUserRepos(userId, counter) ==
  LET user == getUserById(userId) IN
  IF isRateLimited(counter) THEN
    [status |-> 429,
     headers |-> {<<"Retry-After", "2">>, <<"X-RateLimit-Limit", "100">>,
                  <<"X-RateLimit-Remaining", "0">>},
     body |-> [statusCode |-> 429, error |-> "Too Many Requests",
               message |-> <<"Rate limit exceeded. Please retry after the specified time.">>,
               retry_after |-> RetryAfter]]
  ELSE IF user /= Undefined /\ user.deleted THEN
    [status |-> 404, headers |-> JsonHeaders,
     body |-> errorBody(404, "Not Found", <<"User ", userId, " has been deleted">>)]
  ELSE IF userId > PermissionThreshold THEN
    [status |-> 403, headers |-> JsonHeaders,
     body |-> errorBody(403, "Forbidden",
                <<"You don't have permission to access repos for user ", userId>>)]
  ELSE IF user = Undefined THEN
    [status |-> 404, headers |-> JsonHeaders,
     body |-> errorBody(404, "Not Found", <<"User with id ", userId, " not found">>)]
  ELSE
    [status |-> 200, headers |-> JsonHeaders,
     body |-> [data |-> getReposByOwner(userId),
               count |-> Len(getReposByOwner(userId))]]

(* ---- hard tier: GET /api/hard/repos/:repo_id/commits ------------------ *)
HtmlHeaders == {<<"Content-Type", "text/html">>}

\* htmlErrorPage(statusCode, message): the lines of the document
htmlErrorPage(statusCode, message) ==
  << <<"<!DOCTYPE html>">>,
     <<"<html>">>,
     <<"<head>">>,
     <<"  <title>Error ", statusCode, "</title>">>,
     <<"  <style>...</style>">>,
     <<"</head>">>,
     <<"<body>">>,
     <<"  <div class=\"error-code\">", statusCode, "</div>">>,
     <<"  <h1>Service Error</h1>">>,
     <<"  <p>", message, "</p>">>,
     <<"  <p>Please try again later.</p>">>,
     <<"</body>">>,
     <<"</html>">> >>

\* parseInt(request.query.page) || 1
parsePage(q) == IF q = 0 THEN 1 ELSE q

isUnavailableRepoMod5(rId) == rId % 5 = 0

\* repoId % 7 === 0
isUnavailableRepo(rId) == rId % 7 = 0

loopPaginationAdvancing(repoCommits, page) ==
  LET paginated == paginate(repoCommits, page, 5) IN
  [data |-> paginated.data, total |-> paginated.total, page |-> paginated.page,
   per_page |-> paginated.per_page, total_pages |-> paginated.total_pages,
   next_page |-> JsNum(page + 1),
   has_more |-> TRUE,
   _warning |-> "This endpoint intentionally creates an infinite loop for testing"]

\* the body for repo 5: next_page is the current page
loopPagination(repoCommits, page) ==
  LET paginated == paginate(repoCommits, page, 5) IN
  [data |-> paginated.data, total |-> paginated.total, page |-> paginated.page,
   per_page |-> paginated.per_page, total_pages |-> paginated.total_pages,
   next_page |-> JsNum(page),
   has_more |-> TRUE,
   _warning |-> "This endpoint intentionally creates an infinite loop for testing"]

normalPaginationInclusive(repoCommits, page) ==
  LET paginated == paginate(repoCommits, page, 10) IN
  [data |-> paginated.data, total |-> paginated.total, page |-> paginated.page,
   per_page |-> paginated.per_page, total_pages |-> paginated.total_pages,
   next_page |-> IF paginated.page <= paginated.total_pages
                 THEN JsNum(paginated.page + 1) ELSE Null,
   has_more |-> paginated.page <= paginated.total_pages]

\* the body of the normal response
normalPagination(repoCommits, page) ==
  LET paginated == paginate(repoCommits, page, 10) IN
  [data |-> paginated.data, total |-> paginated.total, page |-> paginated.page,
   per_page |-> paginated.per_page, total_pages |-> paginated.total_pages,
   next_page |-> IF paginated.page < paginated.total_pages
                 THEN JsNum(paginated.page + 1) ELSE Null,
   has_more |-> paginated.page < paginated.total_pages]

\* the response of the handler for the parsed repo id and the page query
hardRepoCommits(rId, q) ==
  LET page == parsePage(q) IN
  IF isUnavailableRepo(rId) THEN
    [status |-> 503, headers |-> JsonHeaders,
     body |-> errorBody(503, "Service Unavailable",
                <<"The commit service is temporarily unavailable">>)]
  ELSE IF rId = 13 THEN
    [status |-> 500, headers |-> HtmlHeaders,
     body |-> htmlErrorPage(500, "An unexpected error occurred while fetching commits")]
  ELSE IF rId = 5 THEN
    [status |-> 200, headers |-> JsonHeaders,
     body |-> loopPagination(getCommitsByRepo(rId), page)]
  ELSE
    [status |-> 200, headers |-> JsonHeaders,
     body |-> normalPagination(getCommitsByRepo(rId), page)]

(* ---- serving: requests in flight -------------------------------------- *)
Pending == {c \in Clients : client[c].st = "pending"}

\* a client sends GET /api/hard/users/<u>/repos; the request waits for its
\* turn on the event loop
SendUserRepos(c, u) ==
  /\ pc = "serving"
  /\ client[c].st = "idle"
  /\ served + Cardinality(Pending) < MaxRequests
  /\ client' = [client EXCEPT ![c] = [st |-> "pending", userId |-> u]]
  /\ UNCHANGED <<pc, dataVars, requestCounter, last, served, observed, limited, unitVars, fakerState, auxVars>>

\* The handler runs to completion: it has no await, so no other handler
\* runs between its getRequestCount() and its isRateLimited().
HandleUserRepos(c) ==
  /\ pc = "serving"
  /\ client[c].st = "pending"
  /\ LET rc == getRequestCount(requestCounter)
         resp == hardUserRepos(client[c].userId, rc.counter)
     IN /\ requestCounter' = rc.counter
        /\ served' = served + 1
        /\ observed' = observed \cup {rc.ret}
        /\ limited' = IF resp.status = 429 THEN limited + 1 ELSE limited
        /\ last' = [st |-> "sent", ep |-> "hard_user_repos", k |-> served + 1,
                    userId |-> client[c].userId, resp |-> resp]
        /\ limitedLog' = Append(limitedLog, resp.status = 429)
  /\ client' = [client EXCEPT ![c] = [st |-> "idle"]]
  /\ UNCHANGED <<pc, dataVars, unitVars, fakerState, contentSeen, pag, firstBuild>>

Serve ==
  \/ \E c \in Clients, u \in UserIdInputs : SendUserRepos(c, u)
  \/ \E c \in Clients : HandleUserRepos(c)

Next == Build \/ Serve

Spec == Init /\ [][Next]_vars

(* ---- utils/errors.js called directly, without the routes -------------- *)
CallGetRequestCount ==
  /\ nIncs < MaxCalls
  /\ requestCounter' = getRequestCount(requestCounter).counter
  /\ nIncs' = nIncs + 1
  /\ paired' = (paired /\ lastCall /= "inc")
  /\ lastCall' = "inc"
  /\ UNCHANGED <<pc, dataVars, serveVars, nChecks, trueAt, fakerState, auxVars>>

CallIsRateLimited ==
  /\ nChecks < MaxCalls
  /\ nChecks' = nChecks + 1
  /\ trueAt' = IF isRateLimited(requestCounter) THEN trueAt \cup {nChecks + 1} ELSE trueAt
  /\ paired' = (paired /\ lastCall = "inc")
  /\ lastCall' = "check"
  /\ UNCHANGED <<pc, dataVars, serveVars, requestCounter, nIncs, fakerState, auxVars>>

CallResetRequestCounter ==
  /\ requestCounter' = resetRequestCounter
  /\ nIncs' = 0 /\ nChecks' = 0 /\ trueAt' = {}
  /\ lastCall' = "none" /\ paired' = TRUE
  /\ UNCHANGED <<pc, dataVars, serveVars, fakerState, auxVars>>

NextEngine == CallGetRequestCount \/ CallIsRateLimited \/ CallResetRequestCounter

SpecEngine == Init /\ [][NextEngine]_vars

(* ---- one client sending one request at a time -------------------------- *)
ApiUserIds == (0 - 1)..(NumUsers + 2)

apiUnchanged == UNCHANGED <<pc, dataVars, client, unitVars>>

\* GET /api/hard/users/<u>/repos, sent and answered
RequestUserRepos(u) ==
  /\ pc = "serving"
  /\ served < MaxRequests
  /\ LET rc == getRequestCount(requestCounter)
         resp == hardUserRepos(u, rc.counter)
     IN /\ requestCounter' = rc.counter
        /\ served' = served + 1
        /\ observed' = observed \cup {rc.ret}
        /\ limited' = IF resp.status = 429 THEN limited + 1 ELSE limited
        /\ last' = [st |-> "sent", ep |-> "hard_user_repos", k |-> served + 1,
                    userId |-> u, resp |-> resp]
        /\ limitedLog' = Append(limitedLog, resp.status = 429)
  /\ UNCHANGED <<fakerState, contentSeen, pag, firstBuild>>
  /\ apiUnchanged

\* GET /api/hard/repos/<r>/commits?page=<q>, sent and answered.  start,
\* steps and visited follow a client that walks the pages from this request
\* on: the page it started at, the requests made, the data received.
\* the handler taking a tick of the request counter as well
RequestRepoCommitsCounting(r, q) ==
  /\ pc = "serving"
  /\ LET resp == hardRepoCommits(r, q)
     IN last' = [st |-> "sent", ep |-> "hard_repo_commits", repoId |-> r,
                 reqPage |-> q, resp |-> resp, start |-> q, steps |-> 1,
                 visited |-> IF resp.status = 200 THEN resp.body.data ELSE <<>>]
  /\ requestCounter' = getRequestCount(requestCounter).counter
  /\ UNCHANGED <<served, observed, limited, fakerState, auxVars>>
  /\ apiUnchanged

RequestRepoCommits(r, q) ==
  /\ pc = "serving"
  /\ LET resp == hardRepoCommits(r, q)
     IN last' = [st |-> "sent", ep |-> "hard_repo_commits", repoId |-> r,
                 reqPage |-> q, resp |-> resp, start |-> q, steps |-> 1,
                 visited |-> IF resp.status = 200 THEN resp.body.data ELSE <<>>]
  /\ UNCHANGED <<requestCounter, served, observed, limited, fakerState, auxVars>>
  /\ apiUnchanged

\* the client requests the next_page of the response it has just received
FollowNextPage ==
  /\ pc = "serving"
  /\ last.st = "sent" /\ last.ep = "hard_repo_commits"
  /\ last.resp.status = 200
  /\ last.resp.body.next_page /= Null
  /\ last.steps < MaxFollow
  /\ LET q == last.resp.body.next_page[1]
         resp == hardRepoCommits(last.repoId, q)
     IN last' = [st |-> "sent", ep |-> "hard_repo_commits", repoId |-> last.repoId,
                 reqPage |-> q, resp |-> resp, start |-> last.start,
                 steps |-> last.steps + 1,
                 visited |-> IF resp.status = 200
                             THEN last.visited \o resp.body.data ELSE last.visited]
  /\ UNCHANGED <<requestCounter, served, observed, limited, fakerState, auxVars>>
  /\ apiUnchanged

(* ---- medium tier ------------------------------------------------------- *)
\* parseInt(request.query.per_page) || 10
parsePerPage(q) == IF q = 0 THEN 10 ELSE q

\* GET /api/medium/users?page=<q>&per_page=<pp>
mediumUsers(q, pp) ==
  [status |-> 200, headers |-> JsonHeaders,
   body |-> paginate(users, parsePage(q), parsePerPage(pp))]

RequestMediumUsers(q, pp) ==
  /\ pc = "serving"
  /\ last' = [st |-> "sent", ep |-> "medium_users", reqPage |-> q,
              reqPerPage |-> pp, resp |-> mediumUsers(q, pp)]
  /\ UNCHANGED <<requestCounter, served, observed, limited, fakerState, auxVars>>
  /\ apiUnchanged

mediumUserDeleted404(userId) ==
  LET user == getUserById(userId)
      userRepos == getReposByOwner(userId)
      userCommits == SelectSeq(commits, LAMBDA c : c.author_id = userId)
  IN IF user = Undefined THEN
       [status |-> 404, headers |-> JsonHeaders,
        body |-> errorBody(404, "Not Found", <<"User with id ", userId, " not found">>)]
     ELSE IF user.deleted THEN
       [status |-> 404, headers |-> JsonHeaders,
        body |-> errorBody(404, "Not Found",
                   <<"User with id ", userId, " has been deleted">>)]
     ELSE
       [status |-> 200, headers |-> JsonHeaders,
        body |-> [id |-> user.id, deleted |-> user.deleted,
                  repo_count |-> Len(userRepos),
                  commit_count |-> Len(userCommits),
                  repos |-> [k \in 1..Len(userRepos) |-> [id |-> userRepos[k].id]]]]

\* GET /api/medium/users/<userId>
mediumUser(userId) ==
  LET user == getUserById(userId)
      userRepos == getReposByOwner(userId)
      userCommits == SelectSeq(commits, LAMBDA c : c.author_id = userId)
  IN IF user = Undefined THEN
       [status |-> 404, headers |-> JsonHeaders,
        body |-> errorBody(404, "Not Found", <<"User with id ", userId, " not found">>)]
     ELSE IF user.deleted THEN
       [status |-> 410, headers |-> JsonHeaders,
        body |-> errorBody(410, "Gone",
                   <<"User with id ", userId, " has been deleted">>)]
     ELSE
       [status |-> 200, headers |-> JsonHeaders,
        body |-> [id |-> user.id, deleted |-> user.deleted,
                  repo_count |-> Len(userRepos),
                  commit_count |-> Len(userCommits),
                  repos |-> [k \in 1..Len(userRepos) |-> [id |-> userRepos[k].id]]]]

\* the listing without the check for a deleted user
mediumUserReposDeletedListed(userId) ==
  LET user == getUserById(userId)
      userRepos == getReposByOwner(userId)
  IN IF user = Undefined THEN
       [status |-> 404, headers |-> JsonHeaders,
        body |-> errorBody(404, "Not Found", <<"User with id ", userId, " not found">>)]
     ELSE
       [status |-> 200, headers |-> JsonHeaders,
        body |-> [data |-> userRepos,
                  count |-> Len(userRepos),
                  user_id |-> userId,
                  _extraction_hint |->
                    [field |-> "data[].id",
                     values |-> [k \in 1..Len(userRepos) |-> userRepos[k].id]]]]

\* GET /api/medium/users/<userId>/repos
mediumUserRepos(userId) ==
  LET user == getUserById(userId)
      userRepos == getReposByOwner(userId)
  IN IF user = Undefined THEN
       [status |-> 404, headers |-> JsonHeaders,
        body |-> errorBody(404, "Not Found", <<"User with id ", userId, " not found">>)]
     ELSE IF user.deleted THEN
       [status |-> 404, headers |-> JsonHeaders,
        body |-> errorBody(404, "Not Found",
                   <<"User with id ", userId, " has been deleted">>)]
     ELSE
       [status |-> 200, headers |-> JsonHeaders,
        body |-> [data |-> userRepos,
                  count |-> Len(userRepos),
                  user_id |-> userId,
                  _extraction_hint |->
                    [field |-> "data[].id",
                     values |-> [k \in 1..Len(userRepos) |-> userRepos[k].id]]]]

RequestMediumUser(u) ==
  /\ pc = "serving"
  /\ last' = [st |-> "sent", ep |-> "medium_user", userId |-> u,
              resp |-> mediumUser(u)]
  /\ UNCHANGED <<requestCounter, served, observed, limited, fakerState, auxVars>>
  /\ apiUnchanged

RequestMediumUserRepos(u) ==
  /\ pc = "serving"
  /\ last' = [st |-> "sent", ep |-> "medium_user_repos", userId |-> u,
              resp |-> mediumUserRepos(u)]
  /\ UNCHANGED <<requestCounter, served, observed, limited, fakerState, auxVars>>
  /\ apiUnchanged

\* an object next to null: <<x>>
JsObj(x) == <<x>>

\* String.prototype.startsWith
startsWith(str, q) == Len(q) <= Len(str) /\ SubSeq(str, 1, Len(q)) = q

findCommitByShaExact(sha) ==
  LET hits == {k \in 1..Len(commits) : commits[k].sha = sha}
  IN IF hits = {} THEN Undefined
     ELSE commits[CHOOSE k \in hits : \A m \in hits : k <= m]

\* commits.find(c => c.sha === sha || c.sha.startsWith(sha))
findCommitBySha(sha) ==
  LET hits == {k \in 1..Len(commits) :
                 commits[k].sha = sha \/ startsWith(commits[k].sha, sha)}
  IN IF hits = {} THEN Undefined
     ELSE commits[CHOOSE k \in hits : \A m \in hits : k <= m]

\* GET /api/medium/commits/<sha>
mediumCommitBySha(sha) ==
  LET commit == findCommitBySha(sha) IN
  IF commit = Undefined THEN
    [status |-> 404, headers |-> JsonHeaders,
     body |-> errorBody(404, "Not Found", <<"Commit with sha ", sha, " not found">>)]
  ELSE
    LET author == getUserById(commit.author_id)
        repo == getRepoById(commit.repo_id)
    IN [status |-> 200, headers |-> JsonHeaders,
        body |-> [id |-> commit.id, repo_id |-> commit.repo_id,
                  author_id |-> commit.author_id,
                  timestamp |-> commit.timestamp, sha |-> commit.sha,
                  author |-> IF author /= Undefined
                             THEN JsObj([id |-> author.id]) ELSE Null,
                  repo |-> IF repo /= Undefined
                           THEN JsObj([id |-> repo.id]) ELSE Null]]

HexDigits == 0..15

\* the sha texts asked for: every text of one hex digit, the texts of one
\* digit twice, of each sha of the dataset its first three digits and all but
\* its last digit, the whole sha of the first and of the last commit, and a
\* text longer than a sha
ShaQueries ==
  {<<a>> : a \in HexDigits} \cup {<<a, a>> : a \in HexDigits}
    \cup UNION {{SubSeq(commits[k].sha, 1, n) :
                   n \in {3, Len(commits[k].sha) - 1}} :
                 k \in 1..Len(commits)}
    \cup {commits[k].sha : k \in {1, Len(commits)} \cap (1..Len(commits))}
    \cup {commits[k].sha \o <<0>> : k \in 1..Min(1, Len(commits))}

\* lookups made so far by the client
lookups == IF last.st = "sent" /\ last.ep = "medium_commit" THEN last.n ELSE 0

RequestCommitBySha(q) ==
  /\ pc = "serving"
  /\ lookups < MaxLookups
  /\ last' = [st |-> "sent", ep |-> "medium_commit", sha |-> q,
              n |-> lookups + 1, resp |-> mediumCommitBySha(q)]
  /\ UNCHANGED <<requestCounter, served, observed, limited, fakerState, auxVars>>
  /\ apiUnchanged

NextSha == Build \/ \E q \in ShaQueries : RequestCommitBySha(q)

SpecSha == Init /\ [][NextSha]_vars

\* the loop of generateFileContent from iteration n on, faker being in state s
RECURSIVE contentLines(_, _)
contentLines(n, s) ==
  IF n >= ContentValues THEN <<>>
  ELSE (IF n % SectionEvery = 0
        THEN << <<"// Section ", (n \div SectionEvery) + 1>> >> ELSE <<>>)
       \o << <<"const value_", n, fakerNext(s)>> >>
       \o contentLines(n + 1, fakerNext(s))

\* the content built from the stream faker happens to be in
generateFileContentUnseeded(fileId, s) ==
  [content |-> << <<"// File ID: ", fileId>>,
                  <<"// Generated content for testing">> >>
               \o contentLines(0, s)
               \o << <<"// End of file">> >>,
   state |-> fakerSeed(Seed)]

\* generateFileContent(fileId), faker being in state s: the lines returned
\* and the state faker is left in
generateFileContent(fileId, s) ==
  [content |-> << <<"// File ID: ", fileId>>,
                  <<"// Generated content for testing">> >>
               \o contentLines(0, fakerSeed(fileId * ContentSeedFactor))
               \o << <<"// End of file">> >>,
   state |-> fakerSeed(Seed)]

\* GET /api/medium/files/<file_id>/download: the reply and the state of faker
mediumFileDownload(fileId, s) ==
  IF getFileById(fileId) = Undefined THEN
    [resp |-> [status |-> 404, headers |-> JsonHeaders,
               body |-> errorBody(404, "Not Found",
                                  <<"File with id ", fileId, " not found">>)],
     state |-> s]
  ELSE
    LET g == generateFileContent(fileId, s)
    IN [resp |-> [status |-> 200,
                  headers |-> {<<"Content-Type", "text/plain">>},
                  body |-> g.content],
        state |-> g.state]

FileIdInputs == {0, 1, 2, NumFiles, NumFiles + 1}

RequestFileDownload(f) ==
  /\ pc = "serving"
  /\ Len(contentSeen) < MaxDownloads
  /\ LET d == mediumFileDownload(f, fakerState)
     IN /\ last' = [st |-> "sent", ep |-> "medium_download", fileId |-> f,
                    before |-> fakerState, resp |-> d.resp]
        /\ fakerState' = d.state
        /\ contentSeen' = IF d.resp.status = 200
                          THEN Append(contentSeen,
                                      [fileId |-> f, content |-> d.resp.body])
                          ELSE contentSeen
  /\ UNCHANGED <<requestCounter, served, observed, limited, pag, firstBuild, limitedLog>>
  /\ apiUnchanged

NextFiles == Build \/ \E f \in FileIdInputs : RequestFileDownload(f)

SpecFiles == Init /\ [][NextFiles]_vars

\* values of Math.random(), in hundredths, on both sides of each threshold
Rolls == {2, 3, 4, 5, 9, 10}

\* maybeEmptyResponse(), Math.random() returning r
maybeEmptyResponse(r) == r < EmptyPercent

\* the text '{"data": [{"id": 1, "name": "broken"', token by token
MalformedText ==
  <<"{", "data", ":", "[", "{", "id", ":", "1", ",", "name", ":", "broken">>

\* maybeMalformedJson(), Math.random() returning r
maybeMalformedJson(r) == IF r < MalformedPercent THEN MalformedText ELSE Null

\* maybeServerError(), Math.random() returning r
maybeServerError(r) ==
  IF r < ServerErrorPercent
  THEN JsObj(errorBody(500, "Internal Server Error",
                       "Random server failure for testing"))
  ELSE Null

\* the handler with the server error checked first
hardUsersErrorFirst(r1, r2, r3) ==
  IF maybeServerError(r1) /= Null THEN
    [used |-> 1, status |-> 500, kind |-> "json", headers |-> JsonHeaders,
     body |-> maybeServerError(r1)[1]]
  ELSE IF maybeEmptyResponse(r2) THEN
    [used |-> 2, status |-> 200, kind |-> "text", headers |-> {}, body |-> <<>>]
  ELSE IF maybeMalformedJson(r3) /= Null THEN
    [used |-> 3, status |-> 200, kind |-> "text",
     headers |-> {<<"Content-Type", "application/json">>},
     body |-> maybeMalformedJson(r3)]
  ELSE
    [used |-> 3, status |-> 200, kind |-> "json", headers |-> JsonHeaders,
     body |-> [data |-> users, count |-> Len(users)]]

\* GET /api/hard/users, Math.random() returning r1, r2, r3 in this order to
\* the calls the handler makes; used = how many calls it made
hardUsers(r1, r2, r3) ==
  IF maybeEmptyResponse(r1) THEN
    [used |-> 1, status |-> 200, kind |-> "text", headers |-> {}, body |-> <<>>]
  ELSE IF maybeMalformedJson(r2) /= Null THEN
    [used |-> 2, status |-> 200, kind |-> "text",
     headers |-> {<<"Content-Type", "application/json">>},
     body |-> maybeMalformedJson(r2)]
  ELSE IF maybeServerError(r3) /= Null THEN
    [used |-> 3, status |-> 500, kind |-> "json", headers |-> JsonHeaders,
     body |-> maybeServerError(r3)[1]]
  ELSE
    [used |-> 3, status |-> 200, kind |-> "json", headers |-> JsonHeaders,
     body |-> [data |-> users, count |-> Len(users)]]

RequestHardUsers(r1, r2, r3) ==
  /\ pc = "serving"
  /\ LET resp == hardUsers(r1, r2, r3)
     IN last' = [st |-> "sent", ep |-> "hard_users",
                 rolls |-> SubSeq(<<r1, r2, r3>>, 1, resp.used), resp |-> resp]
  /\ UNCHANGED <<requestCounter, served, observed, limited, fakerState, auxVars>>
  /\ apiUnchanged

NextHardUsers == Build \/ \E r1, r2, r3 \in Rolls : RequestHardUsers(r1, r2, r3)

SpecHardUsers == Init /\ [][NextHardUsers]_vars

\* [...new Set(array)]: the values of array, each at its first place
RECURSIVE jsUnique(_, _)
jsUnique(array, seen) ==
  IF array = <<>> THEN <<>>
  ELSE IF Head(array) \in seen THEN jsUnique(Tail(array), seen)
  ELSE <<Head(array)>> \o jsUnique(Tail(array), seen \cup {Head(array)})

\* GET /api/medium/repos/<rId>
mediumRepo(rId) ==
  LET repo == getRepoById(rId) IN
  IF repo = Undefined THEN
    [status |-> 404, headers |-> JsonHeaders,
     body |-> errorBody(404, "Not Found", <<"Repo with id ", rId, " not found">>)]
  ELSE
    LET repoCommits == getCommitsByRepo(rId)
        contributors ==
          jsUnique([k \in 1..Len(repoCommits) |-> repoCommits[k].author_id], {})
    IN [status |-> 200, headers |-> JsonHeaders,
        body |-> [id |-> repo.id, owner_id |-> repo.owner_id,
                  commit_count |-> Len(repoCommits),
                  contributor_count |-> Len(contributors),
                  contributors |-> contributors,
                  latest_commit |-> IF Len(repoCommits) > 0
                                    THEN JsObj(repoCommits[1]) ELSE Null]]

AllRepoIds == 0..(NumRepos + 1)

\* the handler putting the latest commits first by reversing the collection
RequestMediumRepoReversing(r) ==
  /\ pc = "serving"
  /\ last' = [st |-> "sent", ep |-> "medium_repo", repoId |-> r,
              resp |-> mediumRepo(r)]
  /\ commits' = [k \in 1..Len(commits) |-> commits[Len(commits) + 1 - k]]
  /\ UNCHANGED <<requestCounter, served, observed, limited, fakerState, auxVars>>
  /\ UNCHANGED <<pc, i, users, repos, files, usersWithRepos, commitId, repoId, j,
                 client, unitVars>>

RequestMediumRepo(r) ==
  /\ pc = "serving"
  /\ last' = [st |-> "sent", ep |-> "medium_repo", repoId |-> r,
              resp |-> mediumRepo(r)]
  /\ UNCHANGED <<requestCounter, served, observed, limited, fakerState, auxVars>>
  /\ apiUnchanged

NextRepo == Build \/ \E r \in AllRepoIds : RequestMediumRepo(r)

SpecRepo == Init /\ [][NextRepo]_vars

(* ---- the remaining routes ---------------------------------------------- *)
\* GET /api/easy/users, /repos, /commits, /stats
easyRoute(name) ==
  [status |-> 200, headers |-> JsonHeaders,
   body |-> CASE name = "users" -> [data |-> users, count |-> Len(users)]
              [] name = "repos" -> [data |-> repos, count |-> Len(repos)]
              [] name = "commits" -> [data |-> commits, count |-> Len(commits)]
              [] name = "stats" -> getStats]

EasyNames == {"users", "repos", "commits", "stats"}

RequestEasy(name) ==
  /\ pc = "serving"
  /\ last' = [st |-> "sent", ep |-> "easy", name |-> name, resp |-> easyRoute(name)]
  /\ UNCHANGED <<requestCounter, served, observed, limited, fakerState, auxVars>>
  /\ apiUnchanged

\* parseInt(request.query.per_page) || 20
parsePerPageCommits(q) == IF q = 0 THEN 20 ELSE q

\* GET /api/medium/repos/<rId>/commits?page=<q>&per_page=<pp>
mediumRepoCommits(rId, q, pp) ==
  IF getRepoById(rId) = Undefined THEN
    [status |-> 404, headers |-> JsonHeaders,
     body |-> errorBody(404, "Not Found", <<"Repo with id ", rId, " not found">>)]
  ELSE
    LET paginated == paginate(getCommitsByRepo(rId), parsePage(q),
                              parsePerPageCommits(pp))
    IN [status |-> 200, headers |-> JsonHeaders,
        body |-> [data |-> paginated.data, total |-> paginated.total,
                  page |-> paginated.page, per_page |-> paginated.per_page,
                  total_pages |-> paginated.total_pages,
                  repo_id |-> rId,
                  _extraction_hint |->
                    [field |-> "data[].sha",
                     values |-> [k \in 1..Len(paginated.data) |->
                                   paginated.data[k].sha]]]]

RequestMediumRepoCommits(r, q, pp) ==
  /\ pc = "serving"
  /\ last' = [st |-> "sent", ep |-> "medium_repo_commits", repoId |-> r,
              reqPage |-> q, reqPerPage |-> pp,
              resp |-> mediumRepoCommits(r, q, pp)]
  /\ UNCHANGED <<requestCounter, served, observed, limited, fakerState, auxVars>>
  /\ apiUnchanged

\* GET /api/medium/repos/<rId>/files
mediumRepoFiles(rId) ==
  IF getRepoById(rId) = Undefined THEN
    [status |-> 404, headers |-> JsonHeaders,
     body |-> errorBody(404, "Not Found", <<"Repo with id ", rId, " not found">>)]
  ELSE
    LET repoFiles == getFilesByRepo(rId)
    IN [status |-> 200, headers |-> JsonHeaders,
        body |-> [data |-> repoFiles, count |-> Len(repoFiles), repo_id |-> rId,
                  _extraction_hint |->
                    [file_ids |-> [k \in 1..Len(repoFiles) |-> repoFiles[k].id]]]]

RequestMediumRepoFiles(r) ==
  /\ pc = "serving"
  /\ last' = [st |-> "sent", ep |-> "medium_repo_files", repoId |-> r,
              resp |-> mediumRepoFiles(r)]
  /\ UNCHANGED <<requestCounter, served, observed, limited, fakerState, auxVars>>
  /\ apiUnchanged

\* GET /api/hard/deadlink
hardDeadlink ==
  [status |-> 404, headers |-> JsonHeaders,
   body |-> errorBody(404, "Not Found",
                      "This resource does not exist and never will")]

\* GET /api/hard/timeout: the reply sent once the 30 seconds are over; the
\* handler reads and writes no state before or after its wait
hardTimeout ==
  [status |-> 200, headers |-> JsonHeaders,
   body |-> [message |-> "Response after 30 second delay", delayed_by |-> 30000]]

\* GET /api/hard/flaky, Math.random() returning roll (in hundredths);
\* status 0 stands for the connection closed without a response
hardFlaky(roll) ==
  IF roll < 50 THEN
    [status |-> 200, headers |-> JsonHeaders,
     body |-> [success |-> TRUE, message |-> "Lucky you!"]]
  ELSE IF roll < 65 THEN
    [status |-> 500, headers |-> JsonHeaders,
     body |-> errorBody(500, "Internal Server Error", "Random failure")]
  ELSE IF roll < 80 THEN
    [status |-> 502, headers |-> JsonHeaders,
     body |-> errorBody(502, "Bad Gateway", "Upstream error")]
  ELSE IF roll < 90 THEN
    [status |-> 503, headers |-> JsonHeaders,
     body |-> errorBody(503, "Service Unavailable", "Try again later")]
  ELSE
    [status |-> 0, headers |-> {}, body |-> <<>>]

\* GET /api/hard/slow, Math.random() returning roll (in hundredths): the
\* reply sent once the delay is over
hardSlow(roll) ==
  LET delay == ((roll * 9000) \div 100) + 1000
  IN [status |-> 200, headers |-> JsonHeaders,
      body |-> [message |-> "Slow response", delayed_by |-> delay]]

FlakyRolls == {0, 49, 50, 64, 65, 79, 80, 89, 90, 99}

RequestHardDeadlink ==
  /\ pc = "serving"
  /\ last' = [st |-> "sent", ep |-> "hard_deadlink", resp |-> hardDeadlink]
  /\ UNCHANGED <<requestCounter, served, observed, limited, fakerState, auxVars>>
  /\ apiUnchanged

RequestHardTimeout ==
  /\ pc = "serving"
  /\ last' = [st |-> "sent", ep |-> "hard_timeout", resp |-> hardTimeout]
  /\ UNCHANGED <<requestCounter, served, observed, limited, fakerState, auxVars>>
  /\ apiUnchanged

RequestHardFlaky(roll) ==
  /\ pc = "serving"
  /\ last' = [st |-> "sent", ep |-> "hard_flaky", roll |-> roll,
              resp |-> hardFlaky(roll)]
  /\ UNCHANGED <<requestCounter, served, observed, limited, fakerState, auxVars>>
  /\ apiUnchanged

RequestHardSlow(roll) ==
  /\ pc = "serving"
  /\ last' = [st |-> "sent", ep |-> "hard_slow", roll |-> roll,
              resp |-> hardSlow(roll)]
  /\ UNCHANGED <<requestCounter, served, observed, limited, fakerState, auxVars>>
  /\ apiUnchanged

\* server.js: GET /, GET /health (without its clock reading), and the
\* not-found handler for every other path
serverRoute(path) ==
  CASE path = "/" ->
         [status |-> 200, headers |-> JsonHeaders,
          body |-> [name |-> "Mock SaaS API", version |-> "1.0.0"]]
    [] path = "/health" ->
         [status |-> 200, headers |-> JsonHeaders, body |-> [status |-> "ok"]]
    [] OTHER ->
         [status |-> 404, headers |-> JsonHeaders,
          body |-> errorBody(404, "Not Found", <<"Route GET ", path, " not found">>)]

ServerPaths == {"/", "/health", "/api/none"}

RequestServer(path) ==
  /\ pc = "serving"
  /\ last' = [st |-> "sent", ep |-> "server", path |-> path,
              resp |-> serverRoute(path)]
  /\ UNCHANGED <<requestCounter, served, observed, limited, fakerState, auxVars>>
  /\ apiUnchanged

PathCycleA == "/api/hard/cycle/a"
PathCycleB == "/api/hard/cycle/b"
PathCycleC == "/api/hard/cycle/c"
PathRedirect == "/api/hard/redirect"
PathHardUsers == "/api/hard/users"

\* reply.code(code).redirect(url)
redirectReply(code, url) ==
  [status |-> code, location |-> url, headers |-> {<<"location", url>>}]

\* GET /api/hard/redirect
hardRedirect == redirectReply(301, PathHardUsers)

\* GET /api/hard/cycle/a
hardCycleA == redirectReply(302, PathCycleB)

\* GET /api/hard/cycle/b
hardCycleB == redirectReply(302, PathCycleC)

\* c sending the client back to b
hardCycleCToB == redirectReply(302, PathCycleB)

\* GET /api/hard/cycle/c
hardCycleC == redirectReply(302, PathCycleA)

RedirectPaths == {PathCycleA, PathCycleB, PathCycleC, PathRedirect}

\* the routes of the redirecting endpoints
routeRedirect(path) ==
  CASE path = PathCycleA -> hardCycleA
    [] path = PathCycleB -> hardCycleB
    [] path = PathCycleC -> hardCycleC
    [] path = PathRedirect -> hardRedirect

\* a client asks for one of the redirecting endpoints
RequestRedirect(p) ==
  /\ pc = "serving"
  /\ last' = [st |-> "sent", ep |-> "hard_redirects", start |-> p,
              visited |-> <<p>>, resp |-> routeRedirect(p)]
  /\ UNCHANGED <<requestCounter, served, observed, limited, fakerState, auxVars>>
  /\ apiUnchanged

\* the client follows the Location of the redirect it has received
FollowRedirect ==
  /\ pc = "serving"
  /\ last.st = "sent" /\ last.ep = "hard_redirects"
  /\ last.resp.status \in {301, 302}
  /\ Len(last.visited) < MaxHops
  /\ LET p == last.resp.location IN
       IF p \in RedirectPaths
       THEN last' = [last EXCEPT !.visited = Append(@, p),
                                 !.resp = routeRedirect(p)]
       ELSE \E r1, r2, r3 \in Rolls :
              LET resp == hardUsers(r1, r2, r3)
              IN last' = [last EXCEPT
                            !.visited = Append(@, p),
                            !.resp = [status |-> resp.status, location |-> "",
                                      headers |-> resp.headers]]
  /\ UNCHANGED <<requestCounter, served, observed, limited, fakerState, auxVars>>
  /\ apiUnchanged

NextRedirect ==
  Build \/ (\E p \in RedirectPaths : RequestRedirect(p)) \/ FollowRedirect

SpecRedirect == Init /\ [][NextRedirect]_vars

\* the stream left as it is when the module is loaded
seedAtImportKept(s) == s

\* data/index.js, on module load: faker.seed(42), whatever state s faker was in
seedAtImport(s) == fakerSeed(Seed)

\* runs of the process that have ended so far
restarts == IF firstBuild.st = "kept" THEN firstBuild.n ELSE 0

\* the process ends and is started again: the module is loaded anew, seeds
\* faker and builds the dataset; the collections of the first run are kept
\* aside for comparison
Restart ==
  /\ pc = "serving"
  /\ restarts < MaxRestarts
  /\ firstBuild' = IF firstBuild.st = "kept"
                   THEN [firstBuild EXCEPT !.n = @ + 1]
                   ELSE [st |-> "kept", n |-> 1, users |-> users,
                         repos |-> repos, commits |-> commits, files |-> files]
  /\ pc' = "users"
  /\ i' = 1
  /\ users' = <<>> /\ repos' = <<>> /\ commits' = <<>> /\ files' = <<>>
  /\ usersWithRepos' = <<>>
  /\ commitId' = 1 /\ repoId' = 1 /\ j' = 0
  /\ requestCounter' = 0
  /\ fakerState' = seedAtImport(fakerState)
  /\ UNCHANGED <<serveVars, unitVars, contentSeen, pag, limitedLog>>

NextRebuild == Build \/ Restart

SpecRebuild == Init /\ [][NextRebuild]_vars

(* ---- the two user-repos listings, for every user id --------------------- *)
\* the user ids asked for: every user, the owner ids that belong to no
\* user, and ids on either side
ListingUserIds == 0..(NumUsers + (NumRepos - LastDeletedOwnerRepo) + 1)

NextListing ==
  \/ Build
  \/ \E u \in ListingUserIds : RequestMediumUserRepos(u)
  \/ \E u \in ListingUserIds : RequestUserRepos(u)

SpecListing == Init /\ [][NextListing]_vars

(* ---- every route, each with a few inputs -------------------------------- *)
All ==
  \/ \E name \in EasyNames : RequestEasy(name)
  \/ \E q \in {2} , pp \in {5} : RequestMediumUsers(q, pp)
  \/ \E u \in {1, DeletedUser, NumUsers + 1} : RequestMediumUser(u)
  \/ \E u \in {1, DeletedUser} : RequestMediumUserRepos(u)
  \/ \E r \in {1, NumRepos + 1} : RequestMediumRepo(r)
  \/ \E r \in {1, NumRepos + 1} : RequestMediumRepoCommits(r, 1, 0)
  \/ \E r \in {1, NumRepos + 1} : RequestMediumRepoFiles(r)
  \/ \E q \in {<<2, 13>>, <<0, 0, 0>>} : RequestCommitBySha(q)
  \/ \E f \in {1, NumFiles + 1} : RequestFileDownload(f)
  \/ \E r1 \in {2, 10}, r2 \in {4, 10}, r3 \in {9, 10} : RequestHardUsers(r1, r2, r3)
  \/ \E u \in {1, PermissionThreshold + 1, DeletedUser, NumUsers + 1} :
       RequestUserRepos(u)
  \/ \E r \in {1, 5, 7, 13} : RequestRepoCommits(r, 1)
  \/ FollowNextPage
  \/ RequestHardDeadlink
  \/ RequestHardTimeout
  \/ \E roll \in FlakyRolls : RequestHardFlaky(roll)
  \/ \E roll \in {0, 99} : RequestHardSlow(roll)
  \/ \E p \in {PathCycleC, PathRedirect} : RequestRedirect(p)
  \/ FollowRedirect
  \/ \E path \in ServerPaths : RequestServer(path)

NextAll == Build \/ All

SpecAll == Init /\ [][NextAll]_vars

(* ---- every route once, and the reset hook of utils/errors.js ------------ *)
Counted ==
  \/ served < MaxCounted /\ \E u \in {1, DeletedUser} : RequestUserRepos(u)
  \/ pc = "serving" /\ CallResetRequestCounter
  \/ RequestEasy("stats")
  \/ RequestMediumUsers(1, 0)
  \/ RequestMediumUser(DeletedUser)
  \/ RequestMediumUserRepos(1)
  \/ RequestMediumRepo(NumRepos + 1)
  \/ RequestMediumRepoCommits(1, 1, 0)
  \/ RequestMediumRepoFiles(1)
  \/ RequestCommitBySha(<<2, 13>>)
  \/ Len(contentSeen) < 1 /\ RequestFileDownload(1)
  \/ \E r1 \in {2, 10}, r2 \in {4, 10}, r3 \in {9, 10} : RequestHardUsers(r1, r2, r3)
  \/ \E r \in {5, 7, 13} : RequestRepoCommits(r, 1)
  \/ RequestHardDeadlink
  \/ RequestHardTimeout
  \/ \E roll \in {0, 99} : RequestHardFlaky(roll)
  \/ RequestHardSlow(0)
  \/ RequestRedirect(PathRedirect)
  \/ RequestRedirect(PathCycleA)
  \/ \E path \in ServerPaths : RequestServer(path)

NextCounter == Build \/ Counted

SpecCounter == Init /\ [][NextCounter]_vars

Api ==
  \/ \E u \in ApiUserIds : RequestMediumUser(u)
  \/ \E u \in ApiUserIds : RequestMediumUserRepos(u)
  \/ \E q \in PageInputs, pp \in PerPageInputs : RequestMediumUsers(q, pp)
  \/ \E u \in ApiUserIds : RequestUserRepos(u)
  \/ \E r \in RepoIdInputs, q \in PageInputs : RequestRepoCommits(r, q)
  \/ FollowNextPage

NextApi == Build \/ Api

SpecApi == Init /\ [][NextApi]_vars

(* ---- paginate called directly ----------------------------------------- *)
\* paginate(<<1, ..., len>>, p, n)
ApplyPaginate(len, p, n) ==
  /\ pag' = [st |-> "done", seq |-> [k \in 1..len |-> k], page |-> p,
             perPage |-> n, result |-> paginate([k \in 1..len |-> k], p, n)]
  /\ UNCHANGED <<pc, dataVars, requestCounter, serveVars, unitVars,
                 fakerState, contentSeen, firstBuild, limitedLog>>

NextPaginate ==
  \E len \in 0..MaxLen, p \in (0 - MaxPage)..(MaxLen + 1), n \in 1..MaxPerPage :
    ApplyPaginate(len, p, n)

SpecPaginate == Init /\ [][NextPaginate]_vars

(* ======================================================================= *)
(*                               Properties                                *)
(* ======================================================================= *)
Built == pc = "serving"

\* C1: counting from a counter of 0, the k-th request handled by the
\* hard-tier user-repos endpoint is answered 429 (with the header
\* Retry-After: 2 and retry_after: 2 in the body) if and only if k is a
\* multiple of 5, whatever user id it asks for.
C1_EveryFifthRequest ==
  last.st = "sent" =>
    /\ (last.resp.status = 429) <=> (last.k % 5 = 0)
    /\ last.resp.status = 429 =>
         /\ <<"Retry-After", "2">> \in last.resp.headers
         /\ last.resp.body.retry_after = 2
         /\ last.resp.body.statusCode = 429

\* the tenth request asks for user 21 and is rate-limited all the same
C1_Witness ==
  /\ last.st = "sent" /\ last.k = 10 /\ last.userId = 21
  /\ last.resp.status = 429

\* C2 (as claimed): 15 calls of isRateLimited() in sequence from a fresh
\* counter return true on calls 5, 10 and 15 only, each call advancing the
\* counter by one.
C2_Claimed ==
  nIncs = 0 =>
    /\ trueAt = {k \in 1..nChecks : k % 5 = 0}
    /\ requestCounter = nChecks

\* C2 (amended): isRateLimited() leaves the counter alone; the counter is
\* the number of getRequestCount() calls since initialisation or reset, and
\* when every isRateLimited() call directly follows one getRequestCount()
\* call, the calls that return true are exactly the 5th, 10th, 15th, ...;
\* with no getRequestCount() call at all every isRateLimited() call
\* returns true.
C2_PairedCallsEveryFifth ==
  /\ requestCounter = nIncs
  /\ paired => trueAt = {k \in 1..nChecks : k % 5 = 0}
  /\ nIncs = 0 => trueAt = 1..nChecks

C2_Witness ==
  /\ paired /\ nChecks = 15 /\ nIncs = 15 /\ trueAt = {5, 10, 15}

\* C3: whatever the order in which the requests in flight are handled,
\* every handled request has seen a counter value of its own, and of any 5
\* consecutive counter values exactly one was answered 429.
C3_NoLostOrDuplicatedTick ==
  /\ Cardinality(observed) = served
  /\ observed = 1..served
  /\ limited = served \div 5
  /\ limited = Cardinality({v \in observed : v % 5 = 0})

\* the fifth request handled is answered 429 while another request, sent
\* before it was handled, is still waiting
C3_Witness ==
  /\ served = 5 /\ limited = 1 /\ last.st = "sent" /\ last.resp.status = 429
  /\ \E c \in Clients : client[c].st = "pending"

\* C4: the built dataset has 20 users, 50 repos, 200 commits and 30 files,
\* and in each collection the k-th element has id k.
C4_Cardinality ==
  Built =>
    /\ Len(users) = 20 /\ Len(repos) = 50 /\ Len(commits) = 200 /\ Len(files) = 30
    /\ \A k \in 1..Len(users) : users[k].id = k
    /\ \A k \in 1..Len(repos) : repos[k].id = k
    /\ \A k \in 1..Len(commits) : commits[k].id = k
    /\ \A k \in 1..Len(files) : files[k].id = k

\* the build is over and the commit loop was stopped by the cap of 200
C4_Witness ==
  /\ Built /\ commitId = 201
  /\ Len(commits) = 200 /\ commits[200].id = 200

\* C5 (as claimed): every repo with id in 1..40 has 3 + (id % 6) commits,
\* a number between 3 and 8.
C5_Claimed ==
  Built =>
    \A r \in 1..40 :
      /\ Len(getCommitsByRepo(r)) = 3 + (r % 6)
      /\ Len(getCommitsByRepo(r)) \in 3..8

\* C6: every commit's repo_id is in 1..40 and getCommitsByRepo is empty
\* for the repos 41..50.
C6_NoCommitsPast40 ==
  Built =>
    /\ \A k \in 1..Len(commits) : commits[k].repo_id \in 1..40
    /\ \A r \in 41..50 : getCommitsByRepo(r) = <<>>

C6_Witness ==
  /\ Built /\ Len(commits) > 0
  /\ getCommitsByRepo(50) = <<>> /\ getCommitsByRepo(1) /= <<>>

\* C7 (as claimed): no repo is owned by a user in 16..20, and the users
\* 1..15 all own the same number of repos.
C7_Claimed ==
  Built =>
    /\ \A u \in 16..20 : getReposByOwner(u) = <<>>
    /\ \A u, v \in 1..15 : Len(getReposByOwner(u)) = Len(getReposByOwner(v))

C9_Authors ==
  Built =>
    /\ \A k \in 1..Len(commits) :
         /\ (commits[k].author_id = 18) <=> (commits[k].id % 20 = 0)
         /\ commits[k].id % 20 /= 0 =>
              /\ commits[k].author_id = (commits[k].id % 17) + 1
              /\ commits[k].author_id \in 1..17
         /\ getUserById(commits[k].author_id) /= Undefined
         /\ commits[k].author_id \notin {19, 20}
    /\ {commits[k].id : k \in {m \in 1..Len(commits) : commits[m].author_id = 18}}
         = {20 * n : n \in 1..10}

C9_Witness ==
  /\ Built /\ Len(commits) >= 200
  /\ commits[200].author_id = 18 /\ commits[17].author_id = 1
  /\ commits[16].author_id = 17

\* C10 (as claimed): a request that is not rate-limited and asks for a
\* user id that is not in the dataset is answered 404.
C10_Claimed ==
  (/\ last.st = "sent" /\ last.resp.status /= 429
   /\ getUserById(last.userId) = Undefined)
    => last.resp.status = 404

\* C10 (amended): a request that is not rate-limited and asks for a user
\* id that is not in the dataset is answered 403 when the id is above 15
\* (21, 99, ...) and 404 when it is not (0, negative ids).
C10_MissingUser ==
  (/\ last.st = "sent" /\ last.resp.status /= 429
   /\ getUserById(last.userId) = Undefined)
    => /\ last.userId > 15 => last.resp.status = 403
       /\ last.userId <= 15 => last.resp.status = 404

C10_Witness ==
  /\ last.st = "sent" /\ last.userId = 21 /\ last.resp.status = 403
  /\ getUserById(21) = Undefined

\* C11: a request to the hard-tier user-repos endpoint that is not
\* rate-limited and asks for an existing user is answered 404 for user 18,
\* 403 for users 16, 17, 19, 20, and 200 with exactly the repos whose
\* owner_id is the user id for users 1..15.
C11_ExistingUser ==
  (/\ last.st = "sent" /\ last.ep = "hard_user_repos"
   /\ last.resp.status /= 429 /\ last.userId \in 1..20)
    => /\ last.userId = 18 => last.resp.status = 404
       /\ last.userId \in {16, 17, 19, 20} => last.resp.status = 403
       /\ last.userId \in 1..15 =>
            /\ last.resp.status = 200
            /\ \A k \in 1..Len(last.resp.body.data) :
                 last.resp.body.data[k].owner_id = last.userId
            /\ {last.resp.body.data[k].id : k \in 1..Len(last.resp.body.data)}
                 = {repos[k].id : k \in {m \in 1..Len(repos) :
                                           repos[m].owner_id = last.userId}}
            /\ last.resp.body.count = 3
            /\ Len(last.resp.body.data) = 3

\* user 18 asked for on a request that is not a fifth one
C11_Witness ==
  /\ last.st = "sent" /\ last.ep = "hard_user_repos"
  /\ last.userId = 18 /\ last.resp.status = 404 /\ last.k = 3

IsRepoCommits == last.st = "sent" /\ last.ep = "hard_repo_commits"

\* C12: the hard-tier repo-commits endpoint picks one outcome by the repo
\* id alone, in this order: 503 when the id is divisible by 7, else 500 with
\* an HTML body for 13, else the looping pagination for 5, else the normal
\* pagination; the request counter plays no part and is left as it was.
C12_OutcomeByRepoId ==
  IsRepoCommits =>
    LET r == last.repoId
        resp == last.resp
    IN /\ r % 7 = 0 => resp.status = 503 /\ resp.body.statusCode = 503
       /\ (r % 7 /= 0 /\ r = 13) =>
            /\ resp.status = 500
            /\ <<"Content-Type", "text/html">> \in resp.headers
            /\ resp.body[2] = <<"<html>">>
       /\ (r % 7 /= 0 /\ r /= 13 /\ r = 5) =>
            /\ resp.status = 200 /\ resp.body.per_page = 5
            /\ resp.body.has_more /\ resp.body.next_page /= Null
       /\ (r % 7 /= 0 /\ r /= 13 /\ r /= 5) =>
            /\ resp.status = 200 /\ resp.body.per_page = 10
            /\ resp.body.has_more <=> (resp.body.next_page /= Null)
            /\ resp.body.has_more <=> (resp.body.page < resp.body.total_pages)
       /\ requestCounter = served

\* repo 13 asked for when the counter stands at a multiple of 5
C12_Witness ==
  /\ IsRepoCommits /\ last.repoId = 13 /\ last.resp.status = 500
  /\ requestCounter = 5

\* C13 (as claimed): for repo 5 the response has next_page equal to the
\* requested page, and has_more = true.
C13_Claimed ==
  (IsRepoCommits /\ last.repoId = 5) =>
    /\ last.resp.body.next_page = JsNum(last.reqPage)
    /\ last.resp.body.has_more

\* C13 (amended): for repo 5 the response has has_more = true and next_page
\* equal to the requested page, a requested page of 0 counting as page 1;
\* a client that starts at page 1 and follows next_page requests page 1
\* every time and never receives next_page = null or has_more = false.
C13_LoopForever ==
  (IsRepoCommits /\ last.repoId = 5) =>
    /\ last.resp.status = 200
    /\ last.resp.body.has_more
    /\ last.resp.body.next_page /= Null
    /\ last.resp.body.next_page =
         JsNum(IF last.reqPage = 0 THEN 1 ELSE last.reqPage)
    /\ last.start = 1 =>
         /\ last.reqPage = 1
         /\ last.resp.body.next_page = JsNum(1)
         /\ last.visited = [k \in 1..(5 * last.steps) |->
                              getCommitsByRepo(5)[((k - 1) % 5) + 1]]

\* the third request of a client that started at page 1 of repo 5
C13_Witness ==
  /\ IsRepoCommits /\ last.repoId = 5 /\ last.start = 1
  /\ last.steps = 3 /\ last.resp.body.next_page = JsNum(1)

\* C14: for a repo id other than 5, 13 and the multiples of 7, next_page is
\* page + 1 when page < total_pages and null otherwise; a client that starts
\* at page 1 and follows next_page reaches next_page = null within
\* max(1, total_pages) requests, having received exactly the repo's commits,
\* each once, in ascending id order.
C14_WalkEnds ==
  (IsRepoCommits /\ last.repoId \notin {5, 13} /\ last.repoId % 7 /= 0) =>
    LET b == last.resp.body
        all == getCommitsByRepo(last.repoId)
    IN /\ b.page < b.total_pages => b.next_page = JsNum(b.page + 1)
       /\ ~(b.page < b.total_pages) => b.next_page = Null
       /\ last.start = 1 =>
            /\ last.steps <= Max(1, b.total_pages)
            /\ last.reqPage = last.steps
            /\ b.next_page = Null =>
                 /\ last.visited = all
                 /\ \A k \in 1..Len(all) : all[k].repo_id = last.repoId
                 /\ \A k \in 1..(Len(all) - 1) : all[k].id < all[k + 1].id

\* repo 11 walked from page 1: its 8 commits arrive and next_page is null
C14_Witness ==
  /\ IsRepoCommits /\ last.repoId = 11 /\ last.start = 1
  /\ last.resp.body.next_page = Null /\ Len(last.visited) = 8

\* the number of pages of len items, n to a page: the least t with t*n >= len
PagesOf(len, n) == CHOOSE t \in 0..len : t * n >= len /\ (t - 1) * n < len

\* C15: for per_page n >= 1 and a page p in 1..total_pages, the data of
\* paginate(seq, p, n) is seq[(p-1)*n : p*n]; for p > total_pages it is
\* empty; total is the length of seq and total_pages is ceil(len / n),
\* whatever p is.
C15_PaginateInRange ==
  pag.st = "done" =>
    LET len == Len(pag.seq)
        n == pag.perPage
        p == pag.page
        res == pag.result
    IN /\ res.total = len
       /\ res.total_pages = PagesOf(len, n)
       /\ p \in 1..res.total_pages =>
            /\ Len(res.data) = Min(p * n, len) - (p - 1) * n
            /\ \A k \in 1..Len(res.data) : res.data[k] = pag.seq[(p - 1) * n + k]
       /\ p > res.total_pages => res.data = <<>>

\* the last, shorter page of five items, two to a page
C15_Witness ==
  /\ pag.st = "done" /\ Len(pag.seq) = 5 /\ pag.perPage = 2 /\ pag.page = 3
  /\ pag.result.data = <<5>> /\ pag.result.total_pages = 3

\* C16 (as claimed): for a page of 0, a negative page or a page beyond
\* total_pages, with per_page >= 1, paginate returns an empty data list and
\* echoes the page.
C16_Claimed ==
  (/\ pag.st = "done"
   /\ (pag.page <= 0 \/ pag.page > pag.result.total_pages))
    => /\ pag.result.data = <<>>
       /\ pag.result.page = pag.page

\* C17: the medium-tier user-repos endpoint answers a request for an
\* existing, non-deleted user with the repos whose owner_id is that user, in
\* ascending id order, and _extraction_hint.values lists their ids in the
\* same order; a user who owns no repo gets 200 with no data and count 0.
C17_UserRepoListing ==
  (/\ last.st = "sent" /\ last.ep = "medium_user_repos"
   /\ getUserById(last.userId) /= Undefined
   /\ ~getUserById(last.userId).deleted)
    => LET b == last.resp.body
           owned == {m \in 1..Len(repos) : repos[m].owner_id = last.userId}
       IN /\ last.resp.status = 200
          /\ b.count = Len(b.data)
          /\ Len(b.data) = Cardinality(owned)
          /\ {b.data[k] : k \in 1..Len(b.data)} = {repos[m] : m \in owned}
          /\ \A k \in 1..(Len(b.data) - 1) : b.data[k].id < b.data[k + 1].id
          /\ Len(b._extraction_hint.values) = Len(b.data)
          /\ \A k \in 1..Len(b.data) : b._extraction_hint.values[k] = b.data[k].id
          /\ owned = {} => (b.data = <<>> /\ b.count = 0)

\* user 16 exists and owns nothing: 200 and an empty list
C17_Witness ==
  /\ last.st = "sent" /\ last.ep = "medium_user_repos" /\ last.userId = 16
  /\ last.resp.status = 200 /\ last.resp.body.count = 0

IsUserRequest ==
  last.st = "sent" /\ last.ep \in {"medium_user", "medium_user_repos", "hard_user_repos"}

\* C18 (as claimed): user 18 is answered 410 by the medium single-user
\* endpoint, a user id that does not exist 404, and the medium and hard
\* user-repos endpoints answer 404 for user 18; nothing else is answered 410.
C18_Claimed ==
  /\ (IsUserRequest /\ last.ep = "medium_user") =>
       /\ last.userId = 18 => last.resp.status = 410
       /\ getUserById(last.userId) = Undefined => last.resp.status = 404
  /\ (IsUserRequest /\ last.ep /= "medium_user" /\ last.userId = 18) =>
       last.resp.status = 404
  /\ (last.st = "sent" /\ last.resp.status = 410) =>
       (last.ep = "medium_user" /\ last.userId = 18)

\* C18 (amended): as claimed, except that the hard user-repos endpoint
\* answers 404 for user 18 only on a request that is not rate-limited; every
\* fifth request to it is answered 429, for user 18 as for any other.
C18_GoneOnlyOnDetail ==
  /\ (IsUserRequest /\ last.ep = "medium_user") =>
       /\ last.userId = 18 => last.resp.status = 410
       /\ getUserById(last.userId) = Undefined => last.resp.status = 404
  /\ (IsUserRequest /\ last.ep = "medium_user_repos" /\ last.userId = 18) =>
       last.resp.status = 404
  /\ (IsUserRequest /\ last.ep = "hard_user_repos" /\ last.userId = 18) =>
       /\ last.k % 5 /= 0 => last.resp.status = 404
       /\ last.k % 5 = 0 => last.resp.status = 429
  /\ (last.st = "sent" /\ last.resp.status = 410) =>
       (last.ep = "medium_user" /\ last.userId = 18)

C18_Witness ==
  /\ IsUserRequest /\ last.ep = "medium_user" /\ last.userId = 18
  /\ last.resp.status = 410 /\ last.resp.body.error = "Gone"

\* C19: the commit lookup by sha answers a query q with the commit of the
\* smallest id whose sha is q or begins with q, and with 404 when no sha
\* begins with q; so the first digits of a commit's sha find that commit
\* unless an earlier commit has the same first digits, and then the
\* earliest such commit.
C19_ShaPrefixLookup ==
  (last.st = "sent" /\ last.ep = "medium_commit") =>
    LET q == last.sha
        hits == {k \in 1..Len(commits) :
                   /\ Len(q) <= Len(commits[k].sha)
                   /\ \A n \in 1..Len(q) : commits[k].sha[n] = q[n]}
    IN /\ hits = {} => last.resp.status = 404
       /\ hits /= {} =>
            /\ last.resp.status = 200
            /\ \E k \in hits : /\ last.resp.body.id = commits[k].id
                               /\ last.resp.body.sha = commits[k].sha
                               /\ \A m \in hits : commits[k].id <= commits[m].id

\* the first three digits of the sha of commit 44 are those of commit 11,
\* which is the one returned
C19_Witness ==
  /\ last.st = "sent" /\ last.ep = "medium_commit" /\ Len(commits) >= 44
  /\ last.sha = SubSeq(commits[44].sha, 1, 3)
  /\ last.resp.status = 200 /\ last.resp.body.id = 11

\* C20: the content a file download returns is a function of the file id
\* alone: whatever downloads came before, of the same file or of others, two
\* downloads of the same file return the same text, and the text is the one
\* generated from the file's own seed.
C20_ContentByFileId ==
  /\ \A a, b \in 1..Len(contentSeen) :
       contentSeen[a].fileId = contentSeen[b].fileId
         => contentSeen[a].content = contentSeen[b].content
  /\ \A a \in 1..Len(contentSeen) :
       /\ Len(contentSeen[a].content) = ContentValues + (ContentValues \div SectionEvery) + 3
       /\ contentSeen[a].content[4] =
            <<"const value_", 0,
              fakerNext(fakerSeed(contentSeen[a].fileId * ContentSeedFactor))>>

\* file 1 is downloaded right after the build, then file 2, then file 1
\* again, with the same text as the first time and another than file 2's
C20_Witness ==
  /\ Len(contentSeen) = 3
  /\ contentSeen[1].fileId = 1 /\ contentSeen[2].fileId = 2
  /\ contentSeen[3].fileId = 1
  /\ contentSeen[3].content = contentSeen[1].content
  /\ contentSeen[2].content /= contentSeen[1].content
  /\ last.st = "sent" /\ last.ep = "medium_download" /\ last.resp.status = 200

\* C21: generateFileContent leaves the global random stream as it found it:
\* the value drawn next after a download is the value that would have been
\* drawn next had the download not happened.
C21_Claimed ==
  (last.st = "sent" /\ last.ep = "medium_download" /\ last.resp.status = 200)
    => fakerNext(fakerState) = fakerNext(last.before)

RECURSIVE OpenCount(_)
OpenCount(text) ==
  IF text = <<>> THEN 0
  ELSE (IF Head(text) \in {"{", "["} THEN 1
        ELSE IF Head(text) \in {"}", "]"} THEN 0 - 1 ELSE 0)
       + OpenCount(Tail(text))

\* C23: a request to the hard users endpoint has exactly one of four
\* outcomes, decided in the order empty (200, zero-length body), malformed
\* (200, JSON text that does not parse), server error (500 with an error
\* body), normal data; a tier is consulted only when every earlier tier did
\* not fire.
C23_TierOrder ==
  (last.st = "sent" /\ last.ep = "hard_users") =>
    LET r == last.rolls
        resp == last.resp
        empty == r[1] < EmptyPercent
        malformed == ~empty /\ r[2] < MalformedPercent
        error == ~empty /\ ~malformed /\ r[3] < ServerErrorPercent
    IN /\ Len(r) = (IF empty THEN 1 ELSE IF malformed THEN 2 ELSE 3)
       /\ empty => /\ resp.status = 200 /\ resp.kind = "text"
                   /\ Len(resp.body) = 0
       /\ malformed => /\ resp.status = 200 /\ resp.kind = "text"
                       /\ Len(resp.body) > 0 /\ OpenCount(resp.body) /= 0
       /\ error => /\ resp.status = 500 /\ resp.kind = "json"
                   /\ resp.body.statusCode = 500
       /\ (~empty /\ ~malformed /\ ~error) =>
            /\ resp.status = 200 /\ resp.kind = "json"
            /\ resp.body.data = users /\ resp.body.count = NumUsers

\* the first roll would have fired the malformed and the server-error tiers,
\* the second the server-error tier; neither does, and the third roll fires
\* the server error
C23_Witness ==
  /\ last.st = "sent" /\ last.ep = "hard_users"
  /\ last.rolls = <<4, 9, 9>>
  /\ last.resp.status = 500

\* the endpoint that follows a, b, c in the order a, b, c, a
AfterInCycle(p) ==
  CASE p = "/api/hard/cycle/a" -> "/api/hard/cycle/b"
    [] p = "/api/hard/cycle/b" -> "/api/hard/cycle/c"
    [] p = "/api/hard/cycle/c" -> "/api/hard/cycle/a"

\* C24: a client that follows redirects from a, b or c visits the three in
\* the order a -> b -> c -> a at every hop and every answer it gets is a 302
\* to the next of them, so it never receives a non-redirect response; the
\* redirect endpoint answers 301 to the hard users endpoint, which is not in
\* the cycle and does not redirect.
C24_RedirectCycle ==
  (last.st = "sent" /\ last.ep = "hard_redirects") =>
    LET v == last.visited
        cycle == {"/api/hard/cycle/a", "/api/hard/cycle/b", "/api/hard/cycle/c"}
    IN /\ last.start \in cycle =>
            /\ \A n \in 1..Len(v) : v[n] \in cycle
            /\ \A n \in 1..(Len(v) - 1) : v[n + 1] = AfterInCycle(v[n])
            /\ last.resp.status = 302
            /\ last.resp.location = AfterInCycle(v[Len(v)])
            /\ Len(v) < MaxHops => ENABLED FollowRedirect
       /\ last.start = "/api/hard/redirect" =>
            /\ Len(v) <= 2
            /\ Len(v) = 1 => /\ last.resp.status = 301
                             /\ last.resp.location = "/api/hard/users"
                             /\ last.resp.location \notin cycle
            /\ Len(v) = 2 => /\ v[2] = "/api/hard/users"
                             /\ last.resp.status \in {200, 500}

\* a client that started at c has gone round the cycle twice and is sent on
C24_Witness ==
  /\ last.st = "sent" /\ last.ep = "hard_redirects"
  /\ last.start = "/api/hard/cycle/c"
  /\ last.visited = <<"/api/hard/cycle/c", "/api/hard/cycle/a",
                      "/api/hard/cycle/b", "/api/hard/cycle/c",
                      "/api/hard/cycle/a", "/api/hard/cycle/b",
                      "/api/hard/cycle/c">>
  /\ last.resp.status = 302

\* C27: the latest_commit of the medium single-repo endpoint is null iff the
\* repo has no commits, and otherwise is a commit of that repo whose
\* timestamp is not earlier than that of any other commit of the repo.
C27_Claimed ==
  (last.st = "sent" /\ last.ep = "medium_repo" /\ last.resp.status = 200) =>
    LET own == {k \in 1..Len(commits) : commits[k].repo_id = last.repoId}
        latest == last.resp.body.latest_commit
    IN /\ (latest = <<>>) <=> (own = {})
       /\ latest /= <<>> =>
            /\ latest[1].repo_id = last.repoId
            /\ \A k \in own : commits[k].timestamp <= latest[1].timestamp

C28_NoConsecutiveLimit ==
  \A a \in 1..Len(limitedLog) :
    limitedLog[a] =>
      \A b \in (a + 1)..(a + 4) : b <= Len(limitedLog) => ~limitedLog[b]

\* the fifth request was answered 429, the four after it were not, and the
\* tenth is again
C28_Witness ==
  /\ Len(limitedLog) = 10
  /\ limitedLog[5] /\ limitedLog[10]
  /\ \A b \in 6..9 : ~limitedLog[b]
  /\ last.st = "sent" /\ last.resp.status = 429 /\ requestCounter = 10

\* C25: once built, the four collections are never changed: no request to an
\* easy, medium or hard endpoint, error paths and file downloads included,
\* leaves users, repos, commits or files other than it found them.
C25_NeverMutated ==
  [][pc = "serving" =>
       /\ users' = users /\ repos' = repos
       /\ commits' = commits /\ files' = files]_vars

\* a file has been downloaded, the counter has passed its first 429, and the
\* single-repo endpoint has just answered from the untouched collections
C25_Witness ==
  /\ pc = "serving"
  /\ Len(contentSeen) >= 1 /\ limited >= 1
  /\ last.st = "sent" /\ last.ep = "medium_repo" /\ last.resp.status = 200
  /\ Len(users) = NumUsers /\ Len(repos) = NumRepos
  /\ Len(commits) = MaxCommits /\ Len(files) = NumFiles
  /\ \A k \in 1..Len(commits) : commits[k].id = k

C30_OrphanReposUnlisted ==
  /\ (last.st = "sent" /\ last.ep \in {"medium_user_repos", "hard_user_repos"}
        /\ last.resp.status = 200) =>
       \A k \in 1..Len(last.resp.body.data) :
         /\ last.resp.body.data[k].id \in 1..45
         /\ \E m \in 1..Len(repos) :
              /\ repos[m].id = last.resp.body.data[k].id
              /\ repos[m].owner_id = last.userId
  /\ pc = "serving" =>
       LET listing == [u \in ListingUserIds |-> mediumUserRepos(u)]
           listed == [u \in ListingUserIds |->
                        IF listing[u].status = 200
                        THEN {listing[u].body.data[k].id :
                                k \in 1..Len(listing[u].body.data)}
                        ELSE {}]
       IN \A r \in 1..45 :
            Cardinality({u \in ListingUserIds : r \in listed[u]}) = 1

\* repo 46 belongs to user 18, and the medium listing of user 18 is a 404
C30_Witness ==
  /\ last.st = "sent" /\ last.ep = "medium_user_repos"
  /\ last.userId = 18 /\ last.resp.status = 404
  /\ \E m \in 1..Len(repos) : repos[m].id = 46 /\ repos[m].owner_id = 18
  /\ \E m \in 1..Len(repos) : repos[m].id = 50 /\ repos[m].owner_id = 23
====
